---------------------------- MODULE Spec2Model ----------------------------
(***************************************************************************)
(* Model of the PDF classification and reassembly pipeline of main.py:     *)
(* the four tree walks rename_pdfs_with_prefix (Stabilize), split_pdfs     *)
(* (Split), process_pdfs (Resolve) and combine_and_rename_pdfs             *)
(* (GroupMergeRename), over a file system of PDF files, and the pure       *)
(* functions they use (determine_file_type, extract_invoice_number, ...).  *)
(*                                                                         *)
(* Strings are sequences of one-character strings.  A Python Optional is   *)
(* a sequence of length at most one: <<>> is None, <<v>> is the value v.   *)
(***************************************************************************)
EXTENDS Integers, Sequences, FiniteSets, TLC

(***************************************************************************)
(* Bounds of the model.                                                    *)
(***************************************************************************)
MaxTextLen == 3        \* longest page text tried by the classifier check
MaxFiles == 2          \* most files in the initial tree
MaxFaults == 1         \* most injected file-system / OCR failures per run

(***************************************************************************)
(* Generic helpers on sequences.                                           *)
(***************************************************************************)
None == <<>>
Some(v) == <<v>>

RECURSIVE Flatten(_)
Flatten(ss) == IF ss = <<>> THEN <<>> ELSE Head(ss) \o Flatten(Tail(ss))

Range(s) == {s[i] : i \in 1..Len(s)}

\* the sequences of length 0..n over the set S
SeqsUpTo(S, n) == UNION {[1..k -> S] : k \in 0..n}

\* Python's "needle in hay" for strings
Contains(hay, needle) ==
    \E i \in 0..(Len(hay) - Len(needle)) :
        \A j \in 1..Len(needle) : hay[i + j] = needle[j]

(***************************************************************************)
(* Text normalisation.                                                     *)
(***************************************************************************)
Whitespace == {" ", "\n"}

\* unidecode(c).lower() for one character: accents stripped, case folded
NormChar(c) ==
    CASE c = "F" -> <<"f">>
      [] c = "V" -> <<"v">>
      [] c = "E" -> <<"e">>
      [] c = "P" -> <<"p">>
      [] c = "e'" -> <<"e">>      \* e with an acute accent
      [] OTHER -> <<c>>

\* unidecode(text).lower()
Normalize(text) == Flatten([i \in 1..Len(text) |-> NormChar(text[i])])

\* re.sub(r'\s{2,}', ' ', text) if text else "": each maximal run of two or
\* more whitespace characters becomes one space; a lone whitespace
\* character is kept as it is.  The argument is an Optional text.
RECURSIVE CollapseWs(_)
CollapseWs(t) ==
    IF t = <<>> THEN <<>>
    ELSE IF Head(t) \notin Whitespace THEN <<Head(t)>> \o CollapseWs(Tail(t))
    ELSE LET run == CHOOSE k \in 1..Len(t) :
                       /\ \A i \in 1..k : t[i] \in Whitespace
                       /\ (k = Len(t) \/ t[k + 1] \notin Whitespace)
             rest == SubSeq(t, run + 1, Len(t))
         IN  (IF run >= 2 THEN <<" ">> ELSE <<Head(t)>>) \o CollapseWs(rest)

clean_text(optText) == IF optText = None THEN <<>> ELSE CollapseWs(optText[1])

(***************************************************************************)
(* rapidfuzz.fuzz.partial_ratio.  Scores are exact rationals <<num, den>>  *)
(* on the 0..100 scale.                                                    *)
(***************************************************************************)
RECURSIVE LCS(_, _)
LCS(a, b) ==
    IF a = <<>> \/ b = <<>> THEN 0
    ELSE IF Head(a) = Head(b) THEN 1 + LCS(Tail(a), Tail(b))
    ELSE LET x == LCS(Tail(a), b)
             y == LCS(a, Tail(b))
         IN  IF x >= y THEN x ELSE y

RatGE(x, y) == x[1] * y[2] >= y[1] * x[2]
RatGT(x, y) == x[1] * y[2] > y[1] * x[2]
RatEQ(x, y) == x[1] * y[2] = y[1] * x[2]

\* fuzz.ratio: normalised Indel similarity, 100 * 2*LCS / (len1 + len2)
Ratio(a, b) ==
    IF Len(a) + Len(b) = 0 THEN <<100, 1>>
    ELSE <<200 * LCS(a, b), Len(a) + Len(b)>>

\* the windows of the longer string the shorter one is aligned with:
\* proper prefixes shorter than the needle, every full-length window, and
\* the suffixes not longer than the needle
Windows(short, long) ==
    LET m == Len(short)
        n == Len(long)
    IN  {SubSeq(long, 1, i) : i \in 1..(m - 1)}
          \cup {SubSeq(long, i + 1, i + m) : i \in 0..(n - m)}
          \cup {SubSeq(long, i + 1, n) : i \in (n - m)..(n - 1)}

BestWindow(short, long) ==
    LET scores == {Ratio(short, w) : w \in Windows(short, long)}
    IN  IF scores = {} THEN <<0, 1>>
        ELSE CHOOSE s \in scores : \A t \in scores : RatGE(s, t)

partial_ratio(s1, s2) ==
    IF s1 = <<>> /\ s2 = <<>> THEN <<100, 1>>
    ELSE IF s1 = <<>> THEN <<0, 1>>
    ELSE IF s2 = <<>> THEN <<0, 1>>
    ELSE IF Len(s1) < Len(s2) THEN BestWindow(s1, s2)
    ELSE IF Len(s2) < Len(s1) THEN BestWindow(s2, s1)
    ELSE LET x == BestWindow(s1, s2)
             y == BestWindow(s2, s1)
         IN  IF RatGE(x, y) THEN x ELSE y

(***************************************************************************)
(* determine_file_type.  keywords is the ordered rule map: a sequence of   *)
(* <<file_type, keyword list>>.  The two nested loops run over the         *)
(* flattened <<file_type, keyword>> pairs in rule-map, then list order.    *)
(***************************************************************************)
similarity_threshold == 80

KeywordPairs(keywords) ==
    Flatten([i \in 1..Len(keywords) |->
               [j \in 1..Len(keywords[i][2]) |->
                  <<keywords[i][1], keywords[i][2][j]>>]])

\* determine_file_type without the early return on an exact match
RECURSIVE ScanWithoutExactMatch(_, _, _, _, _)
ScanWithoutExactMatch(normalized_text, pairs, threshold, best, highest) ==
    IF pairs = <<>> THEN best
    ELSE LET similarity == partial_ratio(normalized_text, Normalize(Head(pairs)[2]))
         IN  IF RatGE(similarity, <<threshold, 1>>) /\ RatGT(similarity, highest)
             THEN ScanWithoutExactMatch(normalized_text, Tail(pairs), threshold,
                                        Some(Head(pairs)[1]), similarity)
             ELSE ScanWithoutExactMatch(normalized_text, Tail(pairs), threshold,
                                        best, highest)

\* determine_file_type with ">=" for "> highest_similarity": the last of
\* equal best scores wins
RECURSIVE ScanLastTieWins(_, _, _, _, _)
ScanLastTieWins(normalized_text, pairs, threshold, best, highest) ==
    IF pairs = <<>> THEN best
    ELSE LET similarity == partial_ratio(normalized_text, Normalize(Head(pairs)[2]))
         IN  IF Contains(normalized_text, Normalize(Head(pairs)[2]))
             THEN Some(Head(pairs)[1])
             ELSE IF RatGE(similarity, <<threshold, 1>>) /\ RatGE(similarity, highest)
             THEN ScanLastTieWins(normalized_text, Tail(pairs), threshold,
                                  Some(Head(pairs)[1]), similarity)
             ELSE ScanLastTieWins(normalized_text, Tail(pairs), threshold, best, highest)

\* one iteration of the inner loop body and the rest of the scan; best is
\* an Optional file type, highest the best similarity so far
RECURSIVE ScanKeywords(_, _, _, _, _)
ScanKeywords(normalized_text, pairs, threshold, best, highest) ==
    IF pairs = <<>> THEN best
    ELSE LET file_type == Head(pairs)[1]
             normalized_keyword == Normalize(Head(pairs)[2])
             similarity == partial_ratio(normalized_text, normalized_keyword)
         IN  IF Contains(normalized_text, normalized_keyword)
             THEN Some(file_type)
             ELSE IF RatGE(similarity, <<threshold, 1>>) /\ RatGT(similarity, highest)
             THEN ScanKeywords(normalized_text, Tail(pairs), threshold,
                               Some(file_type), similarity)
             ELSE ScanKeywords(normalized_text, Tail(pairs), threshold, best, highest)

determine_file_type(text, keywords, threshold) ==
    ScanKeywords(Normalize(text), KeywordPairs(keywords), threshold, None, <<0, 1>>)

\* process_text_for_file_type: eps_config["TYPES"] is passed as types
process_text_for_file_type(optText, types) ==
    determine_file_type(clean_text(optText), types, similarity_threshold)

(***************************************************************************)
(* extract_invoice_number: re.search(r'\d+', folder_name), the first       *)
(* maximal run of decimal digits, or None.                                 *)
(***************************************************************************)
Digits == {"0", "1", "2", "3", "4", "5", "6", "7", "8", "9"}

extract_invoice_number(folder_name) ==
    LET starts == {i \in 1..Len(folder_name) : folder_name[i] \in Digits}
    IN  IF starts = {} THEN None
        ELSE LET first == CHOOSE i \in starts : \A j \in starts : i <= j
                 last == CHOOSE k \in first..Len(folder_name) :
                            /\ \A i \in first..k : folder_name[i] \in Digits
                            /\ (k = Len(folder_name) \/ folder_name[k + 1] \notin Digits)
             IN  Some(SubSeq(folder_name, first, last))

(***************************************************************************)
(* The file system.  A path is [dir, stem, ext]: the folder name, the file *)
(* name without its extension as a sequence of tokens, and the extension.  *)
(* A file is [pages, ok]: ok is FALSE for a file PdfReader cannot parse    *)
(* (corrupt, truncated, or no PDF at all).  A page is [id, txt, img]: txt  *)
(* is its text layer, img the text OCR recognises on it.                   *)
(***************************************************************************)
InvoiceDir == <<"E", "L", "E", "4", "6">>
PlainDir == <<"N", "O">>

\* os.walk visits the folders top-down; the root itself holds no file
WalkOrder == <<InvoiceDir, PlainDir>>

PdfPath(dir, stem) == [dir |-> dir, stem |-> stem, ext |-> "pdf"]

Page(id, txt, img) == [id |-> id, txt |-> txt, img |-> img]

Pdf(pages) == [pages |-> pages, ok |-> TRUE]
Corrupt == [pages |-> <<>>, ok |-> FALSE]

\* file.endswith('.pdf')
IsPdfName(path) == path.ext = "pdf"

Exists(files, path) == path \in DOMAIN files

Readable(files, path) == Exists(files, path) /\ files[path].ok

\* the file system with path (over)written
WriteFile(files, path, content) ==
    [p \in DOMAIN files \cup {path} |-> IF p = path THEN content ELSE files[p]]

\* os.remove of an existing file
RemoveFile(files, path) == [p \in DOMAIN files \ {path} |-> files[p]]

\* os.rename of an existing file; an existing target is replaced
RenameFile(files, src, dst) ==
    IF src = dst THEN files
    ELSE [p \in (DOMAIN files \ {src}) \cup {dst} |->
            IF p = dst THEN files[src] ELSE files[p]]

\* the names os.walk lists in a folder
FilesIn(files, dir) == {p \in DOMAIN files : p.dir = dir}

\* str(i) for a page index
IndexToken(i) == <<"1", "2", "3", "4", "5", "6", "7", "8", "9">>[i]

\* f"original_{file}"
PrefixedPath(path) == [path EXCEPT !.stem = <<"original_">> \o path.stem]

\* f"{os.path.splitext(pdf_path)[0]}_page_{i + 1}.pdf", i being 0-based
PagePath(path, i) == PdfPath(path.dir, path.stem \o <<"_page_", IndexToken(i)>>)

\* f"{os.path.splitext(pdf_path)[0]}_searchable.pdf"
SearchablePath(path) == PdfPath(path.dir, path.stem \o <<"_searchable">>)

\* str() of an Optional token: None prints as "None"
StrToken(opt) == IF opt = None THEN "None" ELSE opt[1]

\* str() of an Optional string
StrChars(opt) == IF opt = None THEN <<"None">> ELSE opt[1]

\* the combined file written into the input root instead of the folder
CombinedPathInRoot(dir, file_type) == PdfPath(<<>>, <<"combined_", StrToken(file_type)>>)

\* os.path.join(dirname(related_pages[0]), f"combined_{file_type}.pdf")
CombinedPath(dir, file_type) == PdfPath(dir, <<"combined_", StrToken(file_type)>>)

(***************************************************************************)
(* extract_text_from_pdf: the joined page texts, or None when the file     *)
(* cannot be opened or parsed.                                             *)
(***************************************************************************)
extract_text_from_pdf(files, path) ==
    IF Readable(files, path)
    THEN Some(Flatten([i \in 1..Len(files[path].pages) |-> files[path].pages[i].txt]))
    ELSE None

\* Python's "not text" for an Optional string
NotText(optText) == IF optText = None THEN TRUE ELSE optText[1] = <<>>

(***************************************************************************)
(* The payer and hospital configuration passed to                          *)
(* combine_and_rename_pdfs.                                                *)
(***************************************************************************)
Lit(s) == [kind |-> "lit", s |-> s]
Field(s) == [kind |-> "field", s |-> s]

EpsConfig ==
    [TYPES |-> << <<"FVS", << <<"f", "v">> >> >>, <<"EPI", << <<"e", "p">> >> >> >>,
     FILENAME_FORMAT |-> <<Field("file_type"), Lit("_"), Field("NIT"), Lit("_"),
                           Field("PREFIX"), Field("invoice")>>]

\* hospital_config: PREFIX is None when the key is absent
HospitalConfig == [NIT |-> "890702241", PREFIX |-> Some("ELE")]

\* the keyword arguments generate_new_filename passes to str.format
FormatArgs == {"file_type", "NIT", "PREFIX", "invoice"}

\* generate_new_filename passing PREFIX="" whatever the hospital's prefix
generate_new_filename_without_prefix(invoice, file_type, eps_config, hospital_config) ==
    LET fmt == eps_config.FILENAME_FORMAT
        Render(item) ==
            IF item.kind = "lit" THEN <<item.s>>
            ELSE CASE item.s = "file_type" -> <<StrToken(file_type)>>
                   [] item.s = "NIT" -> <<hospital_config.NIT>>
                   [] item.s = "invoice" -> StrChars(invoice)
                   [] OTHER -> <<>>
    IN  Some(Flatten([i \in 1..Len(fmt) |-> Render(fmt[i])]))

\* generate_new_filename: the rendered file name (the template's ".pdf"
\* is the extension), or None when str.format raises KeyError for a
\* field that is not passed
generate_new_filename(invoice, file_type, eps_config, hospital_config) ==
    LET fmt == eps_config.FILENAME_FORMAT
        Render(item) ==
            IF item.kind = "lit" THEN <<item.s>>
            ELSE CASE item.s = "file_type" -> <<StrToken(file_type)>>
                   [] item.s = "NIT" -> <<hospital_config.NIT>>
                   [] item.s = "PREFIX" -> \* hospital_config.get("PREFIX", "")
                        IF hospital_config.PREFIX = None THEN <<>>
                        ELSE <<hospital_config.PREFIX[1]>>
                   [] item.s = "invoice" -> StrChars(invoice)
                   [] OTHER -> <<>>
    IN  IF \E i \in 1..Len(fmt) : fmt[i].kind = "field" /\ fmt[i].s \notin FormatArgs
        THEN None
        ELSE Some(Flatten([i \in 1..Len(fmt) |-> Render(fmt[i])]))

\* generate_new_file_path: the new name in the folder of pdf_path
generate_new_file_path(pdf_path, file_type, invoice, eps_config, hospital_config) ==
    LET name == generate_new_filename(invoice, file_type, eps_config, hospital_config)
    IN  IF name = None THEN None ELSE Some(PdfPath(pdf_path.dir, name[1]))

(***************************************************************************)
(* process_pdf_file: the result dict, or None when an exception is caught. *)
(* extract_patient_id(text) raises TypeError on a None text (re.sub of     *)
(* None), so a file whose text cannot be extracted yields None; a file     *)
(* with no invoice number, an empty text or no matching keyword only logs  *)
(* an error and still yields a dict.  The patient id is only logged.       *)
(***************************************************************************)
process_pdf_file(files, pdf_path, eps_config) ==
    LET invoice == extract_invoice_number(pdf_path.dir)
        text == extract_text_from_pdf(files, pdf_path)
        file_type == process_text_for_file_type(text, eps_config.TYPES)
    IN  IF text = None THEN None
        ELSE Some([file_type |-> file_type, invoice |-> invoice])

\* process_pdf_file calls error_logger.error: no invoice number, no text
\* (extract_text_from_pdf has logged too when it failed), no file type, or
\* the exception of extract_patient_id
process_pdf_file_logs_error(files, pdf_path, eps_config) ==
    LET invoice == extract_invoice_number(pdf_path.dir)
        text == extract_text_from_pdf(files, pdf_path)
        file_type == process_text_for_file_type(text, eps_config.TYPES)
    IN  IF invoice = None THEN TRUE
        ELSE IF NotText(text) THEN TRUE
        ELSE file_type = None

\* file_type_to_pages.setdefault(key, []).append(pdf_path) on the ordered
\* dict, kept as a sequence of [key, pages] in insertion order
GroupAppend(groups, key, pdf_path) ==
    IF \E i \in 1..Len(groups) : groups[i].key = key
    THEN [i \in 1..Len(groups) |->
            IF groups[i].key = key
            THEN [groups[i] EXCEPT !.pages = Append(@, pdf_path)]
            ELSE groups[i]]
    ELSE Append(groups, [key |-> key, pages |-> <<pdf_path>>])

\* combine_pdfs adding the members last to first
RECURSIVE MergedPagesReversed(_, _)
MergedPagesReversed(files, pdf_paths) ==
    IF pdf_paths = <<>> THEN <<>>
    ELSE MergedPagesReversed(files, Tail(pdf_paths)) \o files[Head(pdf_paths)].pages

\* the pages PdfWriter holds after add_page of every page of every member,
\* in list order
RECURSIVE MergedPages(_, _)
MergedPages(files, pdf_paths) ==
    IF pdf_paths = <<>> THEN <<>>
    ELSE files[Head(pdf_paths)].pages \o MergedPages(files, Tail(pdf_paths))

(***************************************************************************)
(* State.                                                                  *)
(***************************************************************************)
VARIABLES
    fs,           \* the file system: path -> file
    nxt,          \* position in Stages of the first stage the run has not passed
    stage,        \* the stage whose walk is running, or "idle" between stages
    walk,         \* the folders os.walk has still to visit
    pending,      \* the files os.walk listed in the current folder that the
                  \* loop has still to reach (the order of a listing is the
                  \* operating system's: any pending file may come next)
    cur,          \* the file whose handler is running (an Optional path)
    pc,           \* position inside the handler of the current file or group
    ret,          \* page_paths, the value split_pdf_by_page returned
    groups,       \* file_type_to_pages of the current folder
    gi,           \* position in groups of the group being combined
    removed,      \* members combine_pdfs has removed from the current group
    written,      \* combine_pdfs has written the current group's combined file
    faults,       \* failures injected so far
    results,      \* what process_pdf_file found for each file of this walk
    splitFailed,  \* sources whose split returned the empty list
    ocrFailed,    \* files found textless by the Resolve stage whose OCR failed
    cText, cRules, cType,  \* the classifier on its own: input, rule map, result
    fname,        \* generate_new_filename on its own: arguments and result
    errLogged,    \* error_logger.error has been called
    ocrApplied,   \* files apply_ocr has written the searchable output of
    eps, hosp,    \* eps_config and hospital_config of the run
    input_tree,   \* the tree under input_path as the run found it
    plan,         \* the stages a scripted caller calls, in calling order
    snap,         \* the tree as it was when the last planned stage began
    exc,          \* the exception that left a stage function, if any
    input_path,   \* the front end's input path (None: nothing entered)
    report        \* the front end's message box: "none", "success", "error"

vars == <<fs, nxt, stage, walk, pending, cur, pc, ret, groups, gi, removed,
          written, faults, results, splitFailed, ocrFailed,
          cText, cRules, cType, fname, errLogged, ocrApplied, eps, hosp, input_tree,
          plan, snap,
          exc, input_path, report>>

walkVars == <<nxt, stage, walk>>
classifyVars == <<cText, cRules, cType, fname>>
historyVars == <<results, splitFailed, ocrFailed>>
mergeVars == <<groups, gi, removed, written>>
configVars == <<eps, hosp, input_tree>>
callerVars == <<plan, snap, exc, input_path, report>>

\* error_logger.error(...) when logged holds
Log(logged) == errLogged' = (errLogged \/ logged)

(***************************************************************************)
(* The trees a run starts from: at most MaxFiles of these files.           *)
(***************************************************************************)
CandidateFiles ==
    { <<PdfPath(InvoiceDir, <<"a">>),
        Pdf(<<Page(1, <<"F", "v">>, <<"F", "v">>), Page(2, <<>>, <<"f", "v">>)>>)>>,
      <<PdfPath(InvoiceDir, <<"b">>), Pdf(<<Page(3, <<"f", "v">>, <<"f", "v">>)>>)>>,
      <<PdfPath(InvoiceDir, <<"c">>), Pdf(<<Page(4, <<"x">>, <<"x">>)>>)>>,
      <<PdfPath(InvoiceDir, <<"s">>), Pdf(<<Page(5, <<>>, <<"f", "v">>)>>)>>,
      <<PdfPath(InvoiceDir, <<"d">>), Corrupt>>,
      <<[dir |-> InvoiceDir, stem |-> <<"n">>, ext |-> "PDF"],
        Pdf(<<Page(8, <<"e", "p">>, <<"e", "p">>)>>)>>,
      <<PdfPath(PlainDir, <<"e">>), Pdf(<<Page(6, <<"e", "p">>, <<"e", "p">>)>>)>>,
      <<PdfPath(InvoiceDir, <<"a", "_page_", "1">>),
        Pdf(<<Page(7, <<"e", "p">>, <<"e", "p">>)>>)>> }

TreeOf(S) == [p \in {c[1] : c \in S} |-> (CHOOSE c \in S : c[1] = p)[2]]

InitialTrees ==
    {TreeOf(S) : S \in {T \in SUBSET CandidateFiles : Cardinality(T) <= MaxFiles}}

Stages == <<"Stabilize", "Split", "Resolve", "GroupMergeRename">>

\* the tree the caller passes as input_path
InputRoot == Some("root")

\* before the first stage is called: no walk is running, nothing is logged
Idle ==
    /\ nxt = 1
    /\ stage = "idle"
    /\ walk = <<>>
    /\ pending = {}
    /\ cur = None
    /\ pc = "walk"
    /\ ret = <<>>
    /\ groups = <<>>
    /\ gi = 1
    /\ removed = 0
    /\ written = FALSE
    /\ faults = 0
    /\ results = {}
    /\ splitFailed = {}
    /\ ocrFailed = {}
    /\ cText = None
    /\ cRules = <<>>
    /\ cType = None
    /\ fname = None
    /\ input_tree = fs
    /\ errLogged = FALSE
    /\ ocrApplied = {}
    /\ snap = None
    /\ exc = None
    /\ report = "none"

Init ==
    /\ fs \in InitialTrees
    /\ Idle
    /\ eps = EpsConfig
    /\ hosp = HospitalConfig
    /\ plan = <<>>
    /\ input_path = InputRoot

(***************************************************************************)
(* The walks.                                                              *)
(***************************************************************************)
WalkDone == pc = "walk" /\ pending = {} /\ walk = <<>>

\* the caller runs the stages it selected, in the order of Stages: the
\* next stage to run is any stage after the last one run, the ones in
\* between being unselected.  Its os.walk begins.
BeginStage ==
    /\ stage = "idle"
    /\ \E i \in nxt..Len(Stages) :
         /\ stage' = Stages[i]
         /\ nxt' = i + 1
    /\ walk' = WalkOrder
    /\ pending' = {}
    /\ results' = {}
    /\ splitFailed' = {}
    /\ UNCHANGED <<fs, cur, pc, ret, faults, ocrFailed, errLogged, ocrApplied>>
    /\ UNCHANGED mergeVars
    /\ UNCHANGED classifyVars
    /\ UNCHANGED configVars
    /\ UNCHANGED callerVars

\* the stage's function returns
EndStage ==
    /\ stage \in Range(Stages)
    /\ WalkDone
    /\ stage' = "idle"
    /\ UNCHANGED <<fs, nxt, walk, pending, cur, pc, ret, faults, errLogged, ocrApplied>>
    /\ UNCHANGED mergeVars
    /\ UNCHANGED historyVars
    /\ UNCHANGED classifyVars
    /\ UNCHANGED configVars
    /\ UNCHANGED callerVars

\* os.walk yields the next folder with the files it holds now
EnterDir ==
    /\ stage \in Range(Stages)
    /\ pc = "walk"
    /\ pending = {}
    /\ walk # <<>>
    /\ pending' = FilesIn(fs, Head(walk))
    /\ walk' = Tail(walk)
    /\ UNCHANGED <<fs, nxt, stage, cur, pc, ret, faults, errLogged, ocrApplied>>
    /\ UNCHANGED mergeVars
    /\ UNCHANGED historyVars
    /\ UNCHANGED classifyVars
    /\ UNCHANGED configVars
    /\ UNCHANGED callerVars

\* a loop that does not advance past the file it handled
ReachAgain(pdf_path) == pc = "walk" /\ pdf_path \in pending /\ pending' = pending

\* the loop reaches pdf_path, one of the files listed and not yet handled
Reach(pdf_path) == pc = "walk" /\ pdf_path \in pending /\ pending' = pending \ {pdf_path}

CanFail == faults < MaxFaults

(***************************************************************************)
(* Stabilize: rename_pdfs_with_prefix, one file of the listing.            *)
(***************************************************************************)
StabilizeFile ==
    /\ stage = "Stabilize"
    /\ \E pdf_path \in pending :
         /\ Reach(pdf_path)
         /\ LET temp_pdf_path == PrefixedPath(pdf_path)
            IN
           \/ /\ IsPdfName(pdf_path) /\ Exists(fs, pdf_path)
              /\ fs' = RenameFile(fs, pdf_path, temp_pdf_path)
              /\ UNCHANGED <<faults, errLogged>>
           \/ \* os.rename raises: the error is logged, the file keeps its name
              /\ IsPdfName(pdf_path) /\ Exists(fs, pdf_path)
              /\ CanFail
              /\ faults' = faults + 1
              /\ Log(TRUE)
              /\ UNCHANGED fs
           \/ /\ ~(IsPdfName(pdf_path) /\ Exists(fs, pdf_path))
              /\ UNCHANGED <<fs, faults, errLogged>>
    /\ UNCHANGED <<cur, pc, ret, ocrApplied>>
    /\ UNCHANGED walkVars
    /\ UNCHANGED mergeVars
    /\ UNCHANGED historyVars
    /\ UNCHANGED classifyVars
    /\ UNCHANGED configVars
    /\ UNCHANGED callerVars

(***************************************************************************)
(* Split: split_pdfs calls handle_pdf_splitting on every listed file,      *)
(* whatever its extension.  SplitPages is split_pdf_by_page; SplitFinish   *)
(* is the rest of handle_pdf_splitting.                                    *)
(***************************************************************************)
\* split_pdf_by_page with one PdfWriter for the whole loop: page file n
\* holds the pages 1..n
RECURSIVE WritePagesCumulative(_, _, _, _)
WritePagesCumulative(files, pdf_path, pages, n) ==
    IF n = 0 THEN files
    ELSE WriteFile(WritePagesCumulative(files, pdf_path, pages, n - 1),
                   PagePath(pdf_path, n), Pdf(SubSeq(pages, 1, n)))

\* the single-page files written for pages 1..n of the source
RECURSIVE WritePages(_, _, _, _)
WritePages(files, pdf_path, pages, n) ==
    IF n = 0 THEN files
    ELSE WriteFile(WritePages(files, pdf_path, pages, n - 1),
                   PagePath(pdf_path, n), Pdf(<<pages[n]>>))

\* split_pdf_by_page returning the source path on failure, as for a
\* single page
SplitFailureAsSinglePage(pdf_path) == <<pdf_path>>

\* handle_pdf_splitting with "len(page_paths) >= 1"
ShouldRemoveSourceOfAny(page_paths) == Len(page_paths) >= 1

\* split_pdf_by_page's "return []" of its except clause
SplitFailure(pdf_path) == <<>>

\* handle_pdf_splitting: "if len(page_paths) > 1" guards the os.remove
ShouldRemoveSource(page_paths) == Len(page_paths) > 1

SplitPages ==
    /\ stage = "Split"
    /\ \E pdf_path \in pending :
         /\ Reach(pdf_path)
         /\ cur' = Some(pdf_path)
         /\ LET pages == fs[pdf_path].pages
            IN
           \/ \* the source cannot be opened or parsed
              /\ ~Readable(fs, pdf_path)
              /\ ret' = SplitFailure(pdf_path)
              /\ Log(TRUE)
              /\ UNCHANGED <<fs, faults>>
           \/ /\ Readable(fs, pdf_path) /\ Len(pages) = 1
              /\ ret' = <<pdf_path>>
              /\ UNCHANGED <<fs, faults, errLogged>>
           \/ /\ Readable(fs, pdf_path) /\ Len(pages) > 1
              /\ fs' = WritePages(fs, pdf_path, pages, Len(pages))
              /\ ret' = [i \in 1..Len(pages) |-> PagePath(pdf_path, i)]
              /\ UNCHANGED <<faults, errLogged>>
           \/ \* writing page k fails: the pages before it are written, page
              \* k is missing or left truncated
              /\ Readable(fs, pdf_path) /\ Len(pages) > 1
              /\ CanFail
              /\ \E k \in 1..Len(pages) :
                   LET done == WritePages(fs, pdf_path, pages, k - 1)
                   IN  fs' \in {done, WriteFile(done, PagePath(pdf_path, k), Corrupt)}
              /\ faults' = faults + 1
              /\ Log(TRUE)
              /\ ret' = SplitFailure(pdf_path)
    /\ pc' = "split_ret"
    /\ UNCHANGED ocrApplied
    /\ UNCHANGED walkVars
    /\ UNCHANGED mergeVars
    /\ UNCHANGED historyVars
    /\ UNCHANGED classifyVars
    /\ UNCHANGED configVars
    /\ UNCHANGED callerVars

SplitFinish ==
    /\ stage = "Split"
    /\ pc = "split_ret"
    /\ LET pdf_path == cur[1]
       IN  \/ \* "Failed to split": the source is skipped
              /\ ret = <<>>
              /\ splitFailed' = splitFailed \cup {pdf_path}
              /\ Log(TRUE)
              /\ UNCHANGED <<fs, faults>>
           \/ /\ ret # <<>> /\ ~ShouldRemoveSource(ret)
              /\ UNCHANGED <<fs, faults, splitFailed, errLogged>>
           \/ /\ ret # <<>> /\ ShouldRemoveSource(ret)
              /\ fs' = RemoveFile(fs, pdf_path)
              /\ UNCHANGED <<faults, splitFailed, errLogged>>
           \/ \* os.remove raises: the error is logged
              /\ ret # <<>> /\ ShouldRemoveSource(ret)
              /\ CanFail
              /\ faults' = faults + 1
              /\ Log(TRUE)
              /\ UNCHANGED <<fs, splitFailed>>
    /\ cur' = None
    /\ pc' = "walk"
    /\ ret' = <<>>
    /\ UNCHANGED <<pending, results, ocrFailed, ocrApplied>>
    /\ UNCHANGED walkVars
    /\ UNCHANGED mergeVars
    /\ UNCHANGED classifyVars
    /\ UNCHANGED configVars
    /\ UNCHANGED callerVars

(***************************************************************************)
(* Resolve: process_pdfs calls extract_text_or_apply_ocr on every listed   *)
(* .pdf file; apply_ocr writes <stem>_searchable.pdf and then removes the  *)
(* input.                                                                  *)
(***************************************************************************)
\* what ocrmypdf writes: every page gets the recognised text as text layer
OcrOutput(file) ==
    Pdf([i \in 1..Len(file.pages) |-> [file.pages[i] EXCEPT !.txt = file.pages[i].img]])

\* apply_ocr removing the input in a finally clause
OcrFailureInputRemoved(files, pdf_path) == RemoveFile(files, pdf_path)

\* apply_ocr when ocrmypdf.ocr raises: os.remove is skipped, the except
\* clause logs the error
OcrFailure(files, pdf_path) == files

ResolveFile ==
    /\ stage = "Resolve"
    /\ \E pdf_path \in pending :
         /\ Reach(pdf_path)
         /\ LET text == extract_text_from_pdf(fs, pdf_path)
                output_path == SearchablePath(pdf_path)
                ocrd == WriteFile(fs, output_path, OcrOutput(fs[pdf_path]))
            IN
           \/ /\ ~(IsPdfName(pdf_path) /\ NotText(text))
              /\ UNCHANGED <<fs, faults, ocrFailed, ocrApplied, errLogged>>
           \/ \* the input cannot be read: extract_text_from_pdf logs the
              \* error, ocrmypdf raises
              /\ IsPdfName(pdf_path) /\ NotText(text)
              /\ ~Readable(fs, pdf_path)
              /\ ocrFailed' = ocrFailed \cup {pdf_path}
              /\ fs' = OcrFailure(fs, pdf_path)
              /\ Log(TRUE)
              /\ UNCHANGED <<faults, ocrApplied>>
           \/ \* ocrmypdf fails on a readable input
              /\ IsPdfName(pdf_path) /\ NotText(text)
              /\ Readable(fs, pdf_path)
              /\ CanFail
              /\ faults' = faults + 1
              /\ ocrFailed' = ocrFailed \cup {pdf_path}
              /\ fs' = OcrFailure(fs, pdf_path)
              /\ Log(TRUE)
              /\ UNCHANGED ocrApplied
           \/ /\ IsPdfName(pdf_path) /\ NotText(text)
              /\ Readable(fs, pdf_path)
              /\ fs' = RemoveFile(ocrd, pdf_path)
              /\ ocrApplied' = ocrApplied \cup {pdf_path}
              /\ UNCHANGED <<faults, ocrFailed, errLogged>>
           \/ \* the output is written, os.remove of the input raises
              /\ IsPdfName(pdf_path) /\ NotText(text)
              /\ Readable(fs, pdf_path)
              /\ CanFail
              /\ faults' = faults + 1
              /\ fs' = ocrd
              /\ ocrApplied' = ocrApplied \cup {pdf_path}
              /\ Log(TRUE)
              /\ UNCHANGED ocrFailed
    /\ UNCHANGED <<cur, pc, ret, results, splitFailed>>
    /\ UNCHANGED walkVars
    /\ UNCHANGED mergeVars
    /\ UNCHANGED classifyVars
    /\ UNCHANGED configVars
    /\ UNCHANGED callerVars

(***************************************************************************)
(* GroupMergeRename: combine_and_rename_pdfs.  Every listed file, whatever *)
(* its extension, goes through process_pdf_file; a file with a result is   *)
(* appended to the group of its file type.  After the last file of the     *)
(* folder combine_pdfs_by_type handles the groups in insertion order:      *)
(* combine_pdfs (CombineWrite, then CombineRemove per member), then the    *)
(* rename of the combined file (GroupRename).                              *)
(***************************************************************************)
GroupFile ==
    /\ stage = "GroupMergeRename"
    /\ \E pdf_path \in pending :
         /\ Reach(pdf_path)
         /\ LET result == process_pdf_file(fs, pdf_path, eps)
                grouped == IF result = None THEN groups
                           ELSE GroupAppend(groups, result[1].file_type, pdf_path)
            IN  /\ results' = results \cup {[path |-> pdf_path, result |-> result,
                                              file |-> fs[pdf_path]]}
                /\ groups' = grouped
                /\ pc' = IF pending' = {} /\ grouped # <<>> THEN "combine" ELSE "walk"
                /\ Log(process_pdf_file_logs_error(fs, pdf_path, eps))
    /\ UNCHANGED <<fs, cur, ret, gi, removed, written, faults, splitFailed, ocrFailed,
                   ocrApplied>>
    /\ UNCHANGED walkVars
    /\ UNCHANGED classifyVars
    /\ UNCHANGED configVars
    /\ UNCHANGED callerVars

CurrentGroup == groups[gi]

CurrentCombinedPath == CombinedPath(CurrentGroup.pages[1].dir, CurrentGroup.key)

\* combine_pdfs removing the members in a finally clause
AfterCombineErrorRemove == "remove"

\* combine_pdfs' except clause logs the error and returns: the loop that
\* removes the members is skipped, combine_pdfs_by_type goes on to the rename
AfterCombineError == "rename"

\* combine_pdfs up to the write of the combined file
CombineWrite ==
    /\ stage = "GroupMergeRename"
    /\ pc = "combine"
    /\ LET pdf_paths == CurrentGroup.pages
           output_path == CurrentCombinedPath
           readable == \A i \in 1..Len(pdf_paths) : Readable(fs, pdf_paths[i])
       IN  \/ \* a member cannot be read: the error is logged
              /\ ~readable
              /\ pc' = AfterCombineError
              /\ Log(TRUE)
              /\ UNCHANGED <<fs, faults, written>>
           \/ \* opening or writing the output fails: the error is logged
              /\ readable
              /\ CanFail
              /\ faults' = faults + 1
              /\ fs' \in {fs, WriteFile(fs, output_path, Corrupt)}
              /\ pc' = AfterCombineError
              /\ Log(TRUE)
              /\ UNCHANGED written
           \/ /\ readable
              /\ fs' = WriteFile(fs, output_path, Pdf(MergedPages(fs, pdf_paths)))
              /\ written' = TRUE
              /\ pc' = "remove"
              /\ UNCHANGED <<faults, errLogged>>
    /\ UNCHANGED <<pending, cur, ret, groups, gi, removed, ocrApplied>>
    /\ UNCHANGED walkVars
    /\ UNCHANGED historyVars
    /\ UNCHANGED classifyVars
    /\ UNCHANGED configVars
    /\ UNCHANGED callerVars

\* combine_pdfs, one os.remove of the loop over the members
CombineRemove ==
    /\ stage = "GroupMergeRename"
    /\ pc = "remove"
    /\ LET pdf_path == CurrentGroup.pages[removed + 1]
       IN  \/ /\ Exists(fs, pdf_path)
              /\ fs' = RemoveFile(fs, pdf_path)
              /\ removed' = removed + 1
              /\ pc' = IF removed + 1 = Len(CurrentGroup.pages) THEN "rename" ELSE "remove"
              /\ UNCHANGED <<faults, errLogged>>
           \/ \* os.remove raises: the error is logged, the loop is left
              /\ Exists(fs, pdf_path)
              /\ CanFail
              /\ faults' = faults + 1
              /\ pc' = "rename"
              /\ Log(TRUE)
              /\ UNCHANGED <<fs, removed>>
    /\ UNCHANGED <<pending, cur, ret, groups, gi, written, ocrApplied>>
    /\ UNCHANGED walkVars
    /\ UNCHANGED historyVars
    /\ UNCHANGED classifyVars
    /\ UNCHANGED configVars
    /\ UNCHANGED callerVars

\* after the rename: the next group, or back to the walk
NextGroup ==
    /\ gi' = IF gi < Len(groups) THEN gi + 1 ELSE 1
    /\ groups' = IF gi < Len(groups) THEN groups ELSE <<>>
    /\ removed' = 0
    /\ written' = FALSE
    /\ pc' = IF gi < Len(groups) THEN "combine" ELSE "walk"
    /\ UNCHANGED <<walk, pending>>

\* combine_pdfs_by_type after combine_pdfs: the new name and os.rename
GroupRename ==
    /\ stage = "GroupMergeRename"
    /\ pc = "rename"
    /\ LET combined_path == CurrentCombinedPath
           first == CurrentGroup.pages[1]
           invoice == extract_invoice_number(first.dir)
           new_pdf_path == generate_new_file_path(first, CurrentGroup.key, invoice,
                                                  eps, hosp)
       IN  IF new_pdf_path = None
           THEN \* KeyError leaves combine_pdfs_by_type and is caught by
                \* combine_and_rename_pdfs: "Unexpected error" is logged, the
                \* walk ends and the function returns normally
                /\ walk' = <<>>
                /\ pending' = {}
                /\ groups' = <<>>
                /\ gi' = 1
                /\ removed' = 0
                /\ written' = FALSE
                /\ pc' = "walk"
                /\ Log(TRUE)
                /\ UNCHANGED <<fs, faults, exc>>
           ELSE \/ /\ Exists(fs, combined_path)
                   /\ fs' = RenameFile(fs, combined_path, new_pdf_path[1])
                   /\ UNCHANGED <<faults, errLogged, exc>>
                   /\ NextGroup
                \/ \* os.rename raises: the error is logged
                   /\ Exists(fs, combined_path)
                   /\ CanFail
                   /\ faults' = faults + 1
                   /\ Log(TRUE)
                   /\ UNCHANGED <<fs, exc>>
                   /\ NextGroup
                \/ \* no combined file: os.rename raises, the error is logged
                   /\ ~Exists(fs, combined_path)
                   /\ Log(TRUE)
                   /\ UNCHANGED <<fs, faults, exc>>
                   /\ NextGroup
    /\ UNCHANGED <<cur, ret, nxt, stage, ocrApplied>>
    /\ UNCHANGED historyVars
    /\ UNCHANGED classifyVars
    /\ UNCHANGED configVars
    /\ UNCHANGED <<plan, snap, input_path, report>>

Next ==
    \/ BeginStage
    \/ EnterDir
    \/ EndStage
    \/ StabilizeFile
    \/ SplitPages
    \/ SplitFinish
    \/ ResolveFile
    \/ GroupFile
    \/ CombineWrite
    \/ CombineRemove
    \/ GroupRename

Spec == Init /\ [][Next]_vars

(***************************************************************************)
(* Properties of the pipeline.                                             *)
(***************************************************************************)
InSomeGroup(path) == \E i \in 1..Len(groups) : path \in Range(groups[i].pages)

\* the text of a file as it was when GroupMergeRename reached it
TextOfFile(file) ==
    IF file.ok THEN Some(Flatten([i \in 1..Len(file.pages) |-> file.pages[i].txt]))
    ELSE None

\* the file is as GroupMergeRename found it: not grouped, not merged away
LeftAlone(r) == Exists(fs, r.path) /\ fs[r.path] = r.file /\ ~InSomeGroup(r.path)

\* C1: a file whose text matches no keyword of the type rules is never put
\* in a group, merged or deleted by GroupMergeRename: it is still at its
\* path, unchanged, when the stage ends.
C1_UnmatchedLeftAlone ==
    \A r \in results :
        process_text_for_file_type(TextOfFile(r.file), EpsConfig.TYPES) = None
            => LeftAlone(r)

\* C2: a file in a folder whose name holds no digit run is excluded from
\* every group by GroupMergeRename: not merged, not deleted, no output
\* produced for it.
C2_NoInvoiceLeftAlone ==
    \A r \in results :
        extract_invoice_number(r.path.dir) = None => LeftAlone(r)

\* C3: a page found textless by Resolve whose OCR failed stays on disk for
\* the rest of the run and is never grouped, merged or deleted.
C3_TextlessStays ==
    \A p \in ocrFailed : Exists(fs, p) /\ ~InSomeGroup(p)

InMerge == stage = "GroupMergeRename" /\ pc \in {"combine", "remove", "rename"}

\* the pages of the members of the current group as GroupMergeRename
\* found them, member after member
ExpectedMerge ==
    LET members == CurrentGroup.pages
        FileOf(path) == (CHOOSE r \in results : r.path = path).file
    IN  Flatten([i \in 1..Len(members) |-> FileOf(members[i]).pages])

\* C4: while a group is merged, a member file disappears only after the
\* combined PDF has been written completely; when reading a member or
\* writing the combined file failed, no member of the group is deleted.
C4_DeleteOnlyAfterWrite ==
    [][InMerge =>
         \A i \in 1..Len(CurrentGroup.pages) :
             LET member == CurrentGroup.pages[i]
             IN  (Exists(fs, member) /\ ~Exists(fs', member))
                     => /\ written
                        /\ Readable(fs, CurrentCombinedPath)
                        /\ fs[CurrentCombinedPath].pages = ExpectedMerge]_vars

C4_Witness ==
    /\ InMerge
    /\ written
    /\ removed >= 1
    /\ ~Exists(fs, CurrentGroup.pages[1])

\* the file the loop of the walk reaches in this step
Reached == CHOOSE p \in pending : p \notin pending'

RECURSIVE SumLen(_)
SumLen(ss) == IF ss = <<>> THEN 0 ELSE Len(Head(ss)) + SumLen(Tail(ss))

\* C5: the groups keep first-seen order (a file the walk reaches is added
\* at the end of one group, the other groups are untouched), and the
\* merged PDF of a group is the concatenation of its members' pages in that
\* order: as many pages as the members have together, member i's before
\* member i+1's.
C5_MergeConcatenates ==
    [][/\ (stage = "GroupMergeRename" /\ pc = "walk" /\ pending' # pending /\ pending # {})
            => /\ \A i \in 1..Len(groups) :
                     /\ groups'[i].key = groups[i].key
                     /\ groups'[i].pages \in
                            {groups[i].pages, Append(groups[i].pages, Reached)}
               /\ Len(groups') \in {Len(groups), Len(groups) + 1}
               /\ Len(groups') = Len(groups) + 1
                     => groups'[Len(groups')].pages = <<Reached>>
               /\ Cardinality({i \in 1..Len(groups') :
                                 Reached \in Range(groups'[i].pages)}) <= 1
       /\ (stage = "GroupMergeRename" /\ pc = "combine" /\ written')
            => LET members == CurrentGroup.pages
                   parts == [i \in 1..Len(members) |-> fs[members[i]].pages]
                   merged == fs'[CurrentCombinedPath]
               IN  /\ merged.ok
                   /\ merged.pages = Flatten(parts)
                   /\ Len(merged.pages) = SumLen(parts)]_vars

C5_Witness ==
    /\ stage = "GroupMergeRename"
    /\ pc = "remove"
    /\ removed = 0
    /\ Len(CurrentGroup.pages) >= 2
    /\ \E i \in 1..Len(CurrentGroup.pages) : Len(fs[CurrentGroup.pages[i]].pages) >= 2
    /\ fs[CurrentCombinedPath].pages =
          Flatten([i \in 1..Len(CurrentGroup.pages) |-> fs[CurrentGroup.pages[i]].pages])

IsSplitPagesStep == stage = "Split" /\ pc = "walk" /\ pc' = "split_ret"

IsSplitFinishStep == stage = "Split" /\ pc = "split_ret" /\ pc' = "walk"

\* what C6 says of one call of split_pdf_by_page on source src with n pages
SplitWroteAllPages(src, n) ==
    /\ Len(ret') = n
    /\ \A i \in 1..n :
         /\ ret'[i] = [dir |-> src.dir,
                       stem |-> src.stem \o <<"_page_", IndexToken(i)>>,
                       ext |-> "pdf"]
         /\ fs'[ret'[i]] = Pdf(<<fs[src].pages[i]>>)
    /\ DOMAIN fs' = DOMAIN fs \cup Range(ret')
    /\ \A p \in DOMAIN fs \ Range(ret') : fs'[p] = fs[p]
    /\ Exists(fs', src) /\ fs'[src] = fs[src]

\* in the Split stage a file disappears only as the source of a split that
\* returned more than one path, removed by handle_pdf_splitting
SourceRemovedOnlyByCaller ==
    stage = "Split" =>
        \A p \in DOMAIN fs \ DOMAIN fs' :
            IsSplitFinishStep /\ p = cur[1] /\ Len(ret) > 1

TextAlphabet == {"f", "v", "F", "x", " "}

RuleMaps ==
    { << <<"FVS", << <<"f", "v">> >> >>, <<"EPI", << <<"v", "x">> >> >> >>,
      << <<"EPI", << <<"v", "x">> >> >>, <<"FVS", << <<"f", "v">> >> >> >>,
      << <<"FVS", << <<"f", "v", "x">> >> >>, <<"EPI", << <<"v", "x", "x", "f">>, <<"F">> >> >> >>,
      << <<"FVS", << <<"x", "f", "v">>, <<"v", "v">> >> >>, <<"EPI", << <<"f", "v", "f">> >> >> >> }

ClassifyInit ==
    /\ fs \in {TreeOf({})}
    /\ nxt = 1
    /\ stage = "idle"
    /\ walk = <<>>
    /\ pending = {}
    /\ cur = None
    /\ pc = "walk"
    /\ ret = <<>>
    /\ groups = <<>>
    /\ gi = 1
    /\ removed = 0
    /\ written = FALSE
    /\ faults = 0
    /\ results = {}
    /\ splitFailed = {}
    /\ ocrFailed = {}
    /\ cText \in {None} \cup {Some(t) : t \in SeqsUpTo(TextAlphabet, MaxTextLen)}
    /\ cRules \in RuleMaps
    /\ cType = Some("unset")
    /\ fname = None
    /\ errLogged = FALSE
    /\ ocrApplied = {}
    /\ eps = EpsConfig
    /\ hosp = HospitalConfig
    /\ input_tree = fs
    /\ plan = <<>>
    /\ snap = None
    /\ exc = None
    /\ input_path = InputRoot
    /\ report = "none"

\* one call of process_text_for_file_type
Classify ==
    /\ cType = Some("unset")
    /\ cType' = process_text_for_file_type(cText, cRules)
    /\ UNCHANGED <<cText, cRules, fname>>
    /\ UNCHANGED <<fs, pending, cur, pc, ret, faults, errLogged, ocrApplied>>
    /\ UNCHANGED walkVars
    /\ UNCHANGED mergeVars
    /\ UNCHANGED historyVars
    /\ UNCHANGED configVars
    /\ UNCHANGED callerVars

ClassifyNext == Classify

SpecClassify == ClassifyInit /\ [][ClassifyNext]_vars

(***************************************************************************)
(* Properties of the classifier.  Every keyword of RuleMaps is non-empty,  *)
(* as in a payer's type rules.                                             *)
(***************************************************************************)
cPairs == KeywordPairs(cRules)

cNormalized == Normalize(clean_text(cText))

Classified == cType # Some("unset")

VerbatimAt(i) == Contains(cNormalized, Normalize(cPairs[i][2]))

ScoreAt(i) == partial_ratio(cNormalized, Normalize(cPairs[i][2]))

ReachesThreshold(i) == RatGE(ScoreAt(i), <<similarity_threshold, 1>>)

FirstOf(S) == CHOOSE i \in S : \A j \in S : i <= j

\* C9: when the normalized text contains some normalized keyword verbatim,
\* the result is the type of the first verbatim-contained keyword in
\* rule-map, then keyword-list order, whatever the fuzzy scores of the
\* other keywords.
C9_ExactMatchFirst ==
    LET verbatim == {i \in 1..Len(cPairs) : VerbatimAt(i)}
    IN  (Classified /\ verbatim # {}) => cType = Some(cPairs[FirstOf(verbatim)][1])

C9_Witness ==
    /\ Classified
    /\ \E i, j \in 1..Len(cPairs) :
         /\ j < i
         /\ VerbatimAt(i)
         /\ \A k \in 1..(i - 1) : ~VerbatimAt(k)
         /\ cPairs[j][1] # cPairs[i][1]
         /\ ReachesThreshold(j)
         /\ cType = Some(cPairs[i][1])

\* C10: when no keyword is a verbatim substring of the text, the result is
\* the type of the keyword with the highest fuzzy score among those that
\* reach the threshold (>=), the first in iteration order among equal
\* highest scores; it is none when no score reaches the threshold, and
\* none for an empty text.
C10_BestFuzzyMatch ==
    LET verbatim == {i \in 1..Len(cPairs) : VerbatimAt(i)}
        reaching == {i \in 1..Len(cPairs) : ReachesThreshold(i)}
        best == {i \in reaching : \A j \in reaching : RatGE(ScoreAt(i), ScoreAt(j))}
    IN  /\ (Classified /\ verbatim = {})
            => cType = IF reaching = {} THEN None ELSE Some(cPairs[FirstOf(best)][1])
        /\ (Classified /\ NotText(cText)) => cType = None

C10_Witness ==
    /\ Classified
    /\ \A k \in 1..Len(cPairs) : ~VerbatimAt(k)
    /\ \E i, j \in 1..Len(cPairs) :
         /\ i < j
         /\ cPairs[i][1] # cPairs[j][1]
         /\ RatEQ(ScoreAt(i), <<similarity_threshold, 1>>)
         /\ RatGT(ScoreAt(j), ScoreAt(i))
         /\ cType = Some(cPairs[j][1])


(***************************************************************************)
(* The front end: PDFProcessorApp.run_selected_actions.  plan holds the    *)
(* stages whose check boxes are selected, in the order of the if-chain;    *)
(* nxt is the position in plan of the next call.  The payer configuration  *)
(* the front end looks up is only passed to calls that raise before they   *)
(* use it.                                                                 *)
(***************************************************************************)
\* the positional parameters of the stage functions of main.py:
\* rename_pdfs_with_prefix(input_path), split_pdfs(input_path),
\* process_pdfs(input_path),
\* combine_and_rename_pdfs(input_path, eps_config, hospital_config)
StageParams ==
    [Stabilize |-> <<"input_path">>,
     Split |-> <<"input_path">>,
     Resolve |-> <<"input_path">>,
     GroupMergeRename |-> <<"input_path", "eps_config", "hospital_config">>]

\* the arguments run_selected_actions passes to each of them
AppArgs ==
    [Stabilize |-> <<"input_path">>,
     Split |-> <<"input_path">>,
     Resolve |-> <<"input_path", "eps_config">>,
     GroupMergeRename |-> <<"input_path", "eps_config">>]

\* Python raises TypeError when the arguments do not fit the parameters
CallRaises(s) == Len(AppArgs[s]) # Len(StageParams[s])

RECURSIVE SubSeqs(_)
SubSeqs(q) ==
    IF q = <<>> THEN {<<>>}
    ELSE LET rest == SubSeqs(Tail(q))
         IN  rest \cup {<<Head(q)>> \o r : r \in rest}

\* the check boxes: any of the four stages, called in the order of Stages
Selections == SubSeqs(Stages)

AppInit ==
    /\ fs \in InitialTrees
    /\ Idle
    /\ eps = EpsConfig
    /\ hosp = HospitalConfig
    /\ plan \in Selections
    /\ input_path \in {None, InputRoot}

\* a stage function is entered: its os.walk begins
StartWalk(s) ==
    /\ stage' = s
    /\ walk' = WalkOrder
    /\ pending' = {}
    /\ results' = {}
    /\ splitFailed' = {}

\* "if not input_path": the error box is shown and the handler returns
AppNoInputPath ==
    /\ input_path = None
    /\ report = "none"
    /\ report' = "error"
    /\ UNCHANGED <<fs, pending, cur, pc, ret, faults, errLogged, ocrApplied>>
    /\ UNCHANGED <<plan, snap, exc, input_path>>
    /\ UNCHANGED walkVars
    /\ UNCHANGED mergeVars
    /\ UNCHANGED historyVars
    /\ UNCHANGED classifyVars
    /\ UNCHANGED configVars

\* the next selected stage is called
AppCall ==
    /\ input_path # None
    /\ report = "none"
    /\ exc = None
    /\ stage = "idle"
    /\ nxt <= Len(plan)
    /\ nxt' = nxt + 1
    /\ IF CallRaises(plan[nxt])
       THEN /\ exc' = Some("TypeError")
            /\ UNCHANGED <<stage, walk, pending, results, splitFailed>>
       ELSE /\ StartWalk(plan[nxt])
            /\ UNCHANGED exc
    /\ UNCHANGED <<fs, cur, pc, ret, faults, ocrFailed, errLogged, ocrApplied>>
    /\ UNCHANGED <<plan, snap, input_path, report>>
    /\ UNCHANGED mergeVars
    /\ UNCHANGED classifyVars
    /\ UNCHANGED configVars

\* "except Exception as e": the error box is shown
AppExcept ==
    /\ exc # None
    /\ report = "none"
    /\ report' = "error"
    /\ UNCHANGED <<fs, pending, cur, pc, ret, faults, errLogged, ocrApplied>>
    /\ UNCHANGED <<plan, snap, exc, input_path>>
    /\ UNCHANGED walkVars
    /\ UNCHANGED mergeVars
    /\ UNCHANGED historyVars
    /\ UNCHANGED classifyVars
    /\ UNCHANGED configVars

\* the if-chain is through: the success box is shown
AppSuccess ==
    /\ input_path # None
    /\ report = "none"
    /\ exc = None
    /\ stage = "idle"
    /\ nxt > Len(plan)
    /\ report' = "success"
    /\ UNCHANGED <<fs, pending, cur, pc, ret, faults, errLogged, ocrApplied>>
    /\ UNCHANGED <<plan, snap, exc, input_path>>
    /\ UNCHANGED walkVars
    /\ UNCHANGED mergeVars
    /\ UNCHANGED historyVars
    /\ UNCHANGED classifyVars
    /\ UNCHANGED configVars

AppNext ==
    \/ AppNoInputPath
    \/ AppCall
    \/ AppExcept
    \/ AppSuccess
    \/ EnterDir
    \/ EndStage
    \/ StabilizeFile
    \/ SplitPages
    \/ SplitFinish

SpecApp == AppInit /\ [][AppNext]_vars

AllSelected == plan = Stages

\* the stage that is walking is the one called last, and the calls follow
\* the order of Stages
StagesInOrder ==
    /\ stage # "idle" => (nxt > 1 /\ stage = plan[nxt - 1])
    /\ \A i, j \in 1..Len(plan) :
         i < j => \E a, b \in 1..Len(Stages) : a < b /\ Stages[a] = plan[i] /\ Stages[b] = plan[j]

\* C11: the stages run in the fixed order Stabilize, Split, Resolve,
\* GroupMergeRename, one after the other over the whole tree, and a run
\* with all four stages selected in which no stage fails ends with
\* GroupMergeRename called and completed and success reported.
C11_FullRunCompletes ==
    /\ StagesInOrder
    /\ (report # "none" /\ input_path # None /\ AllSelected
            /\ faults = 0 /\ ~errLogged)
         => (report = "success" /\ nxt > Len(Stages) /\ exc = None)

(***************************************************************************)
(* Failures inside a stage and the stages after it.                        *)
(***************************************************************************)
\* a step in which the handler of a file fails (an error is logged for it)
FailStep ==
    /\ stage \in {"Stabilize", "Split", "Resolve"}
    /\ \/ faults' = faults + 1
       \/ splitFailed' # splitFailed
       \/ ocrFailed' # ocrFailed

\* the file a step of a stage is about
FileOfStep == IF pending' # pending THEN Reached ELSE cur[1]

\* the loop of a stage takes p as input in this step
TakenAsInput(p) == p \in pending /\ p \notin pending'

\* a failure on a file does not stop the stage: the stage goes on with the
\* folders and files it had still to visit, and the file stays on disk
FailureContinues ==
    FailStep =>
        /\ stage' = stage
        /\ walk' = walk
        /\ pending \ {FileOfStep} \subseteq pending'
        /\ Exists(fs', FileOfStep)

\* no file is handled twice by one walk: a handler step takes exactly one
\* file off the listing, the listing is only refilled by the next folder,
\* and no folder is visited twice
NotRetried ==
    /\ (StabilizeFile \/ SplitPages \/ ResolveFile \/ GroupFile)
          => \E f \in pending : pending' = pending \ {f}
    /\ (stage' = stage /\ stage # "idle")
          => \/ pending' \subseteq pending /\ walk' = walk
             \/ pending = {} /\ walk # <<>> /\ walk' = Tail(walk)
             \/ walk' = <<>> /\ pending' = {}
    /\ \A i, j \in 1..Len(WalkOrder) : WalkOrder[i] = WalkOrder[j] => i = j

BeginPlanned ==
    /\ stage = "idle"
    /\ nxt <= Len(plan)
    /\ nxt' = nxt + 1
    /\ StartWalk(plan[nxt])
    /\ snap' = Some(fs)
    /\ UNCHANGED <<fs, cur, pc, ret, faults, ocrFailed, errLogged, ocrApplied>>
    /\ UNCHANGED <<plan, exc, input_path, report>>
    /\ UNCHANGED mergeVars
    /\ UNCHANGED classifyVars
    /\ UNCHANGED configVars

PlanNext ==
    \/ BeginPlanned
    \/ EnterDir
    \/ EndStage
    \/ StabilizeFile
    \/ SplitPages
    \/ SplitFinish
    \/ ResolveFile
    \/ GroupFile
    \/ CombineWrite
    \/ CombineRemove
    \/ GroupRename

\* the full pipeline: all four stages
FullInit ==
    /\ fs \in InitialTrees
    /\ Idle
    /\ eps = EpsConfig
    /\ hosp = HospitalConfig
    /\ plan = Stages
    /\ input_path = InputRoot

SpecFull == FullInit /\ [][PlanNext]_vars

\* the last stage of the plan has returned
RunEnded == stage = "idle" /\ nxt > Len(plan)

\* what GroupMergeRename found in a folder
ResultsIn(dir) == {r \in results : r.path.dir = dir}

AllKeyedAndTyped(dir) ==
    \A r \in ResultsIn(dir) :
        /\ r.result # None
        /\ r.result[1].file_type # None
        /\ r.result[1].invoice # None

TypesIn(dir) == {r.result[1].file_type[1] : r \in ResultsIn(dir)}

\* "{file_type}_{NIT}_{PREFIX}{invoice}.pdf" in folder dir
CanonicalPath(dir, type) ==
    PdfPath(dir, <<type, "_", "890702241", "_", "ELE">> \o extract_invoice_number(dir)[1])

PageIds(file) == {file.pages[i].id : i \in 1..Len(file.pages)}

\* C13: when the full run has ended without a logged error, every folder
\* whose pages all have an invoice key and a type holds exactly one PDF per
\* type present, with the template's name, made of the pages of that
\* type, and nothing else: no page file, no original_ file, no combined_
\* file.
C13_FullRunLeavesOnePerType ==
    (RunEnded /\ ~errLogged) =>
        \A dir \in Range(WalkOrder) :
            (ResultsIn(dir) # {} /\ AllKeyedAndTyped(dir)) =>
                /\ FilesIn(fs, dir) = {CanonicalPath(dir, t) : t \in TypesIn(dir)}
                /\ \A t \in TypesIn(dir) :
                     /\ fs[CanonicalPath(dir, t)].ok
                     /\ PageIds(fs[CanonicalPath(dir, t)]) =
                          UNION {PageIds(r.file) : r \in
                                   {q \in ResultsIn(dir) : q.result[1].file_type = Some(t)}}

\* a full run has ended without error and left two outputs, one of them
\* merged from more than one page
C13_Witness ==
    /\ RunEnded /\ ~errLogged
    /\ plan = Stages
    /\ Cardinality(FilesIn(fs, InvoiceDir)) = 2
    /\ \E f \in FilesIn(fs, InvoiceDir) : Len(fs[f].pages) > 1

(***************************************************************************)
(* The full pipeline run again on its own output: every file of the tree   *)
(* carries its final name.                                                 *)
(***************************************************************************)
CanonicalFiles ==
    { <<CanonicalPath(InvoiceDir, "FVS"),
        Pdf(<<Page(1, <<"F", "v">>, <<"F", "v">>), Page(2, <<"f", "v">>, <<"f", "v">>)>>)>>,
      <<CanonicalPath(InvoiceDir, "EPI"), Pdf(<<Page(7, <<"e", "p">>, <<"e", "p">>)>>)>> }

RerunInit ==
    /\ fs \in {TreeOf(S) : S \in SUBSET CanonicalFiles}
    /\ Idle
    /\ eps = EpsConfig
    /\ hosp = HospitalConfig
    /\ plan = Stages
    /\ input_path = InputRoot

SpecRerun == RerunInit /\ [][PlanNext]_vars

\* C14: the full pipeline run on a tree whose files all carry their final
\* names changes nothing and logs no error: as long as no operating-system
\* call fails, no step renames, splits, merges or deletes a file.
C14_RerunChangesNothing ==
    [][faults' = 0 => (fs' = fs /\ ~errLogged')]_vars

(***************************************************************************)
(* One stage applied twice in succession to a tree.                        *)
(***************************************************************************)
TwiceInit ==
    /\ fs \in InitialTrees
    /\ Idle
    /\ eps = EpsConfig
    /\ hosp = HospitalConfig
    /\ plan \in {<<s, s>> : s \in {"Stabilize", "Split", "Resolve"}}
    /\ input_path = InputRoot

TwiceNext ==
    \/ BeginPlanned
    \/ EnterDir
    \/ EndStage
    \/ StabilizeFile
    \/ SplitPages
    \/ SplitFinish
    \/ ResolveFile

SpecTwice == TwiceInit /\ [][TwiceNext]_vars

\* C15: Stabilize, Split or Resolve applied twice in succession leaves the
\* same file names and contents as applied once (when no operating-system
\* call fails): the tree after the second application is the tree the
\* second application started from.
C15_StageIdempotent ==
    (RunEnded /\ faults = 0) => fs = snap[1]

(***************************************************************************)
(* GroupMergeRename under payer configurations whose filename template     *)
(* may reference a field generate_new_filename does not pass.              *)
(***************************************************************************)
TemplateConfigs ==
    { EpsConfig,
      [EpsConfig EXCEPT !.FILENAME_FORMAT =
          <<Field("file_type"), Lit("_"), Field("patient_id")>>],
      [EpsConfig EXCEPT !.FILENAME_FORMAT =
          <<Field("NIT"), Lit("_"), Field("invoice"), Lit("_"), Field("SUFFIX")>>] }

TemplateInit ==
    /\ fs \in InitialTrees
    /\ Idle
    /\ eps \in TemplateConfigs
    /\ hosp = HospitalConfig
    /\ plan = <<"GroupMergeRename">>
    /\ input_path = InputRoot

TemplateNext ==
    \/ BeginPlanned
    \/ EnterDir
    \/ EndStage
    \/ GroupFile
    \/ CombineWrite
    \/ CombineRemove
    \/ GroupRename

SpecTemplate == TemplateInit /\ [][TemplateNext]_vars

\* combine_pdfs_by_type is about to build the new name and it cannot be
\* built: the template references a field that is not passed
FilenameGenerationFails ==
    /\ stage = "GroupMergeRename"
    /\ pc = "rename"
    /\ generate_new_filename(extract_invoice_number(CurrentGroup.pages[1].dir),
                             CurrentGroup.key, eps, hosp) = None

\* C16: when the template references a field that is not supplied, the
\* failure of the filename generation leaves the GroupMergeRename stage as
\* an exception to its caller: it is not caught inside the pipeline.
C16_TemplateErrorPropagates ==
    [][FilenameGenerationFails => exc' # None]_vars

(***************************************************************************)
(* The OCR hand-off of the Resolve stage.                                  *)
(***************************************************************************)
\* of every file OCR was applied to, the file or its searchable output is
\* on disk
PreOcrOrOutputExists ==
    \A f \in ocrApplied : Exists(fs, f) \/ Exists(fs, SearchablePath(f))

\* when OCR fails on a file, nothing is removed or written
OcrFailureKeepsTree == ocrFailed' # ocrFailed => fs' = fs

\* C17 as stated: in every reachable state, of a page OCR was applied to at
\* least one of the pre-OCR file and its OCR output exists; when OCR fails
\* the pre-OCR file stays and nothing is removed.
C17_PreOcrOrOutputAlways ==
    [][PreOcrOrOutputExists' /\ OcrFailureKeepsTree]_vars

\* the file the Resolve stage handles in this step
OcrStepFile == CHOOSE f \in pending : f \notin pending'

\* C17, amended: apply_ocr removes the pre-OCR file only after the
\* searchable output has been written; when OCR fails nothing is removed
\* or written; and until GroupMergeRename begins to merge files away, at
\* least one of the pre-OCR file and its output exists.
C17_OcrHandOffKeepsOne ==
    [][/\ nxt' <= Len(Stages) => PreOcrOrOutputExists'
       /\ OcrFailureKeepsTree
       /\ (stage = "Resolve" /\ pending # {} /\ pending' # pending
               /\ ~Exists(fs', OcrStepFile))
            => /\ Exists(fs', SearchablePath(OcrStepFile))
               /\ fs'[SearchablePath(OcrStepFile)] = OcrOutput(fs[OcrStepFile])
               /\ OcrStepFile \in ocrApplied']_vars

\* OCR has been applied to a file: the file is gone, its output is there
C17_Witness ==
    /\ nxt <= Len(Stages)
    /\ \E f \in ocrApplied : ~Exists(fs, f) /\ Exists(fs, SearchablePath(f))

(***************************************************************************)
(* Folders.  No stage function calls mkdir, rmdir, a directory rename or a *)
(* move: the folders are those os.walk visits, and every path a stage      *)
(* writes is built with os.path.join from the folder of the file, or of    *)
(* the first member of the group, it is handling.                          *)
(***************************************************************************)
\* the folders that hold a file
FoldersOf(files) == {p.dir : p \in DOMAIN files}

\* the paths a step creates or overwrites
WrittenPaths == {p \in DOMAIN fs' : p \notin DOMAIN fs \/ fs'[p] # fs[p]}

\* the file(s) the handler of this step works on: the file the loop has
\* just reached, the source being split, or the members of the group
\* being combined and renamed
StepSources ==
    (IF pending' # pending /\ pending # {} THEN pending \ pending' ELSE {})
    \cup (IF stage = "Split" /\ cur # None THEN {cur[1]} ELSE {})
    \cup (IF stage = "GroupMergeRename" /\ pc \in {"combine", "remove", "rename"}
            THEN Range(CurrentGroup.pages) ELSE {})

\* C18: no stage creates, deletes or renames a folder and no file moves
\* between folders: after every step the files lie in the folders the walk
\* started with, and every file a step creates or renames lies in the
\* folder of the file(s) it was made from.
C18_FilesStayInFolder ==
    [][/\ FoldersOf(fs') \subseteq Range(WalkOrder)
       /\ WrittenPaths # {} =>
            /\ StepSources # {}
            /\ \A p \in WrittenPaths : \A q \in StepSources : p.dir = q.dir]_vars

\* a file renamed by Stabilize and a combined file made from such files
\* are on disk
C18_Witness ==
    /\ \E p \in DOMAIN fs : p.stem[1] = "original_"
    /\ \E p \in DOMAIN fs : p.stem[1] = "combined_"
    /\ Cardinality(FoldersOf(fs)) > 1

(***************************************************************************)
(* Files that are not named *.pdf.  rename_pdfs_with_prefix and            *)
(* process_pdfs test file.endswith('.pdf'); split_pdfs and                 *)
(* combine_and_rename_pdfs hand every listed file to their handler.        *)
(***************************************************************************)
\* the files on disk whose name does not end in .pdf
OtherFiles(files) == {p \in DOMAIN files : ~IsPdfName(p)}

\* a file stays on disk as it is
Untouched(p) == p \in DOMAIN fs' /\ fs'[p] = fs[p]

\* a file has been classified and put into a group
Merged(p) == \E r \in results : r.path = p /\ r.result # None

\* C19: a file whose name does not end in .pdf is never split, OCR'd,
\* classified, merged, renamed or deleted by any stage, whatever its
\* content.
C19_OnlyPdfNamesTouched ==
    [][\A p \in OtherFiles(fs) : Untouched(p) /\ ~Merged(p)']_vars

(***************************************************************************)
(* generate_new_filename on its own: one call on a filename format of at   *)
(* most MaxTemplateLen items and a hospital with or without a PREFIX.      *)
(***************************************************************************)
MaxTemplateLen == 2

\* the fields a filename format may reference
TemplateFields == {"file_type", "NIT", "PREFIX", "SUFFIX", "invoice"}

TemplateItems == {Field(f) : f \in TemplateFields \cup {"patient_id"}} \cup {Lit("_")}

FormatConfigs ==
    {[EpsConfig EXCEPT !.FILENAME_FORMAT = t] : t \in SeqsUpTo(TemplateItems, MaxTemplateLen)}

HospitalConfigs == {HospitalConfig, [HospitalConfig EXCEPT !.PREFIX = None]}

FormatInit ==
    /\ fs \in {TreeOf({})}
    /\ Idle
    /\ eps \in FormatConfigs
    /\ hosp \in HospitalConfigs
    /\ plan = <<>>
    /\ input_path = InputRoot

\* one call of generate_new_filename
Format ==
    /\ fname = None
    /\ \E invoice \in {None, Some(<<"4", "6">>)}, file_type \in {Some("FVS"), Some("EPI")} :
         fname' = Some([invoice |-> invoice, file_type |-> file_type,
                        name |-> generate_new_filename(invoice, file_type, eps, hosp)])
    /\ UNCHANGED <<cText, cRules, cType>>
    /\ UNCHANGED <<fs, pending, cur, pc, ret, faults, errLogged, ocrApplied>>
    /\ UNCHANGED walkVars
    /\ UNCHANGED mergeVars
    /\ UNCHANGED historyVars
    /\ UNCHANGED configVars
    /\ UNCHANGED callerVars

FormatNext == Format

SpecFormat == FormatInit /\ [][FormatNext]_vars

\* the fields the format references
ReferencedFields ==
    {eps.FILENAME_FORMAT[i].s :
        i \in {j \in 1..Len(eps.FILENAME_FORMAT) : eps.FILENAME_FORMAT[j].kind = "field"}}

\* the text a field stands for; eps_config carries no suffix
FieldValue(f) ==
    CASE f = "file_type" -> <<StrToken(fname[1].file_type)>>
      [] f = "NIT" -> <<hosp.NIT>>
      [] f = "PREFIX" -> IF hosp.PREFIX = None THEN <<>> ELSE <<hosp.PREFIX[1]>>
      [] f = "SUFFIX" -> <<>>
      [] f = "invoice" -> StrChars(fname[1].invoice)

Substituted ==
    Flatten([i \in 1..Len(eps.FILENAME_FORMAT) |->
                IF eps.FILENAME_FORMAT[i].kind = "lit"
                THEN <<eps.FILENAME_FORMAT[i].s>>
                ELSE FieldValue(eps.FILENAME_FORMAT[i].s)])

\* C20: for every filename format that references only fields among
\* file_type, NIT, PREFIX, SUFFIX and invoice, the generation succeeds and
\* substitutes each referenced field, SUFFIX and an absent PREFIX by the
\* empty string.
C20_AllowedFieldsFormat ==
    (fname # None /\ ReferencedFields \subseteq TemplateFields)
        => /\ fname[1].name # None
           /\ fname[1].name[1] = Substituted

(***************************************************************************)
(* Page conservation.  Every page carries an id that no operation changes: *)
(* a page is followed from the input tree through renames, page files, OCR *)
(* outputs and combined files.                                             *)
(***************************************************************************)
\* the files of a folder that contain the page
HoldersOf(files, dir, id) == {q \in FilesIn(files, dir) : id \in PageIds(files[q])}

\* between stages, the page of the input file p is in exactly one file of
\* p's folder
PageKept(p, id) == Cardinality(HoldersOf(fs, p.dir, id)) = 1

\* C21: after any sequence of stages, failing file operations included,
\* every page of every PDF of the input tree is contained in exactly one
\* file of its original folder: none is lost by an overwritten target,
\* none is duplicated by the page files of a split that failed part-way.
C21_PageConservation ==
    stage = "idle" =>
        \A p \in DOMAIN input_tree : \A id \in PageIds(input_tree[p]) : PageKept(p, id)

(***************************************************************************)
(* The rename that publishes a group.  combine_pdfs returns None whether   *)
(* it succeeded or logged an error; combine_pdfs_by_type goes on to        *)
(* os.rename in either case.                                               *)
(***************************************************************************)
\* os.rename(combined_path, new_pdf_path) of the current group takes effect
RenamedToCanonical == stage = "GroupMergeRename" /\ pc = "rename" /\ fs' # fs

\* combine_pdfs wrote the combined file and removed every member
MergeSucceeded == written /\ removed = Len(CurrentGroup.pages)

\* the members of the current group that are still on disk
MembersLeft(files) == {m \in Range(CurrentGroup.pages) : Exists(files, m)}

\* C22: a file is renamed to a group's canonical name only when that
\* group's merge fully succeeded in this run, the combined file written and
\* every member deleted; the output never coexists with a member it
\* contains.
C22_RenameOnlyAfterFullMerge ==
    [][RenamedToCanonical => (MergeSucceeded /\ MembersLeft(fs') = {})]_vars


=============================================================================
